---------------------------- MODULE Spec2Model ----------------------------
(***************************************************************************)
(* Model of the image-agent pipeline: the grading heuristic                *)
(* (EvaluationGrader.grade_evaluation), the best-variant selector          *)
(* (BestImageSelector), the iteration loop (PipelineOrchestrator) and the  *)
(* result stores (PromptHandler).                                          *)
(*                                                                         *)
(* Texts are sequences of one-character strings, so that lower-casing and  *)
(* whitespace splitting are computed as Python computes them.  Scores are  *)
(* exact rationals [num, den] in lowest terms; for every input of the      *)
(* model the binary64 value Python computes lies on the same side of, or   *)
(* exactly on, each threshold as the exact value.                          *)
(***************************************************************************)
EXTENDS Integers, Sequences, FiniteSets, TLC

VARIABLES
    \* EvaluationGrader.grade_evaluation, called on its own
    description,        \* argument: text or None
    original_prompt,    \* argument: text or None
    evaluation,         \* the returned dict (NoEvaluation before the call)
    raised,             \* the exception raised inside the try block ("none" if none)
    escaped,            \* the exception that left grade_evaluation ("none" if none)
    graded,             \* TRUE once grade_evaluation has ended
    \* BestImageSelector.select_best_variant, called on its own
    sel_variants,       \* argument: the list of variant dicts
    sel_result,         \* the returned variant, or NoVariant for None
    sel_done,           \* TRUE once select_best_variant has returned

    \* PipelineOrchestrator.run_pipeline
    batch_only,         \* argument of run_pipeline
    prompts,            \* the loaded prompts, in dict order; prompt_data is mutable
    pc,                 \* where run_pipeline stands
    pidx,               \* position of the prompt being processed
    iteration,          \* loop variable of the iteration loop
    variants,           \* process_variants: the generated variants
    evaluated_variants, \* process_variants: the described and graded variants
    best_variant,       \* what process_variants returns (NoVariant for None)
    best_images,        \* rows of table best_images
    refined_prompts,    \* rows of table refined_prompts
    started,            \* history: <<prompt position, iteration>> of every process_variants call
    refine_calls,       \* history: <<prompt position, iteration>> of every refine_prompt call
    outcome,            \* history: per prompt, what each finished iteration returned
    running,            \* self.running
    eval_failed,        \* history: positions of the variants of this iteration whose evaluation failed
    last_refine,        \* history: arguments, model answer and result of this iteration's refine_prompt call

    \* PromptHandler.save_results
    handler_module,     \* which PromptHandler class is in use
    database,           \* PromptHandler.py: tables iterations and prompt_status
    result_files,       \* prompt_handler.py: the iteration_<n>_results.json files
    summary_files,      \* prompt_handler.py: summary.json of each prompt
    clock,              \* instants read so far (datetime.now, CURRENT_TIMESTAMP)
    save_calls,         \* history: the arguments of every save_results call
    \* PromptHandler.load_prompts
    input_data,         \* the "prompts" array of the input file
    loaded,             \* the returned dict, as the list of its values in key order
    load_done,          \* TRUE once load_prompts has returned

    \* concurrent calls of one client (FalClient, GeminiClient, ImageVision,
    \* PromptRefiner)
    client,             \* the class of the client in use
    permits,            \* the value of self.concurrent_limit
    client_calls,              \* the number of calls in progress at each position
    surfaced,           \* history: <<attempts, failure kind>> of every call that raised
    \* one attempt of FalClient.generate_image: the status updates
    future,             \* the asyncio.Future of the attempt
    set_calls,          \* history: the set_result / set_exception calls made
    update_log          \* history: the status updates delivered so far

graderVars == <<description, original_prompt, evaluation, raised, escaped, graded>>
selectorVars == <<sel_variants, sel_result, sel_done>>

pipelineVars ==
    <<batch_only, prompts, pc, pidx, iteration, variants, evaluated_variants,
      best_variant, best_images, refined_prompts, started, refine_calls, outcome,
      running, eval_failed, last_refine>>

storeVars ==
    <<handler_module, database, result_files, summary_files, clock, save_calls,
      input_data, loaded, load_done>>

clientVars ==
    <<client, permits, client_calls, surfaced, future, set_calls, update_log>>

vars == <<graderVars, selectorVars, pipelineVars, storeVars, clientVars>>

\* Python's None, kept apart from every text (texts hold one-character strings)
None == <<"None">>

-----------------------------------------------------------------------------
(* Bounds of the model *)

\* most distinct words in a generated prompt text
MaxPromptWords == 7
\* most filler words appended to a generated description
MaxFillWords == 51
\* longest list handed to the selector on its own
MaxVariants == 3
\* most prompts in the input file
MaxPrompts == 2
\* most save_results calls in a run of the store
MaxSaves == 3
\* most calls of a client in progress at the same time
MaxCallers == 6
\* variants requested per iteration (PIPELINE_CONFIG["batch_size"]["default"]
\* is 5; the model runs the loop on smaller batches)
BatchSize == 2

-----------------------------------------------------------------------------
(* Text: str.lower() and str.split() *)

UpperLetters == <<"A","B","C","D","E","F","G","H","I","J","K","L","M",
                  "N","O","P","Q","R","S","T","U","V","W","X","Y","Z">>
LowerLetters == <<"a","b","c","d","e","f","g","h","i","j","k","l","m",
                  "n","o","p","q","r","s","t","u","v","w","x","y","z">>

\* the characters str.split() treats as separators
Whitespace == {" ", "\t", "\n", "\r"}

Range(seq) == {seq[i] : i \in 1..Len(seq)}

LowerChar(ch) ==
    IF \E i \in 1..26 : UpperLetters[i] = ch
    THEN LowerLetters[CHOOSE i \in 1..26 : UpperLetters[i] = ch]
    ELSE ch

\* str.lower()
Lower(text) == [i \in 1..Len(text) |-> LowerChar(text[i])]

\* a word starts at i: a non-whitespace character that is first or follows whitespace
IsWordStart(text, i) ==
    text[i] \notin Whitespace /\ (i = 1 \/ text[i - 1] \in Whitespace)

\* a word ends at i: a non-whitespace character that is last or precedes whitespace
IsWordEnd(text, i) ==
    text[i] \notin Whitespace /\ (i = Len(text) \/ text[i + 1] \in Whitespace)

\* the positions lo..hi at which a word starts (ends, when ends is TRUE), ascending
RECURSIVE Boundaries(_, _, _, _)
Boundaries(text, ends, lo, hi) ==
    IF lo > hi THEN <<>>
    ELSE IF lo = hi
         THEN IF (IF ends THEN IsWordEnd(text, lo) ELSE IsWordStart(text, lo))
              THEN <<lo>> ELSE <<>>
         ELSE LET mid == (lo + hi) \div 2
              IN Boundaries(text, ends, lo, mid) \o Boundaries(text, ends, mid + 1, hi)

\* str.split(): the maximal runs of non-whitespace characters, in order
Split(text) ==
    LET starts == Boundaries(text, FALSE, 1, Len(text))
        stops == Boundaries(text, TRUE, 1, Len(text))
    IN [k \in 1..Len(starts) |-> SubSeq(text, starts[k], stops[k])]

Elements_StripPunctuation(text) ==
    {SelectSeq(w, LAMBDA ch : ch # ",") : w \in Range(Split(Lower(text)))}

\* set(text.lower().split())
Elements(text) == Range(Split(Lower(text)))

-----------------------------------------------------------------------------
(* Exact rational arithmetic for the float expressions of the grader *)

RECURSIVE Gcd(_, _)
Gcd(a, b) == IF b = 0 THEN a ELSE Gcd(b, a % b)

Rat(n, d) == LET g == Gcd(n, d) IN [num |-> n \div g, den |-> d \div g]

RatAdd(x, y) == Rat(x.num * y.den + y.num * x.den, x.den * y.den)
RatMul(x, y) == Rat(x.num * y.num, x.den * y.den)
RatLeq(x, y) == x.num * y.den <= y.num * x.den
RatLt(x, y) == x.num * y.den < y.num * x.den
RatMin(x, y) == IF RatLt(y, x) THEN y ELSE x
RatMax(x, y) == IF RatLt(x, y) THEN y ELSE x

Zero == Rat(0, 1)
One == Rat(1, 1)

-----------------------------------------------------------------------------
(* config.py *)

max_iterations == 3
quality_threshold == Rat(7, 10)
refinement_threshold == Rat(85, 100)
QUALITY_THRESHOLD_Raised == Rat(3, 4)

\* config.QUALITY_THRESHOLD, the alias the selector imports
QUALITY_THRESHOLD == quality_threshold

-----------------------------------------------------------------------------
(* EvaluationGrader *)

FeedbackFull == "Image successfully captures the prompt's requirements."
FeedbackBasic == "Image meets basic requirements but could be improved."
FeedbackPoor == "Image does not adequately match the prompt requirements."

\* str(e) of the exception the try block can raise
ExceptionText(exc) ==
    CASE exc = "ZeroDivisionError" -> "Error during evaluation: division by zero"
      [] exc = "AttributeError" ->
            "Error during evaluation: 'NoneType' object has no attribute 'lower'"

\* the exception raised inside the try block of grade_evaluation, "none" if none:
\* .lower() of a non-string, then the division by len(prompt_elements)
GradeException(desc, prompt) ==
    IF prompt = None \/ desc = None THEN "AttributeError"
    ELSE IF Cardinality(Elements(prompt)) = 0 THEN "ZeroDivisionError"
    ELSE "none"

CaughtByExcept_ValueErrorOnly(exc) == exc \in {"ValueError"}

\* "except Exception": the exceptions the handler of grade_evaluation catches
CaughtByExcept(exc) == exc \in {"ZeroDivisionError", "AttributeError"}

\* len(common_elements) / len(prompt_elements)
TermOverlap(desc, prompt) ==
    Rat(Cardinality(Elements(prompt) \cap Elements(desc)),
        Cardinality(Elements(prompt)))

LengthFactor_Div100(desc) == RatMin(Rat(Len(Split(desc)), 100), One)

\* min(len(description.split()) / 50, 1.0)
LengthFactor(desc) == RatMin(Rat(Len(Split(desc)), 50), One)

Score_Unclamped(desc, prompt) ==
    RatAdd(RatMul(TermOverlap(desc, prompt), Rat(7, 10)),
           RatMul(Rat(Len(Split(desc)), 50), Rat(3, 10)))

\* score * 0.7 + description_length_factor * 0.3, clamped to [0, 1]
Score(desc, prompt) ==
    LET raw == RatAdd(RatMul(TermOverlap(desc, prompt), Rat(7, 10)),
                      RatMul(LengthFactor(desc), Rat(3, 10)))
    IN RatMax(Zero, RatMin(One, raw))

Passed_Strict(score) == RatLt(quality_threshold, score)

\* passed = score >= self.quality_threshold
Passed(score) == RatLeq(quality_threshold, score)

\* needs_refinement = score < self.refinement_threshold
NeedsRefinement(score) == RatLt(score, refinement_threshold)

Feedback(score) ==
    IF RatLeq(refinement_threshold, score) THEN FeedbackFull
    ELSE IF RatLeq(quality_threshold, score) THEN FeedbackBasic
    ELSE FeedbackPoor

\* the dict grade_evaluation returns
grade_evaluation(desc, prompt) ==
    LET exc == GradeException(desc, prompt) IN
    IF exc # "none"
    THEN [score |-> Zero, passed |-> FALSE, needs_refinement |-> TRUE,
          feedback |-> ExceptionText(exc)]
    ELSE LET score == Score(desc, prompt) IN
         [score |-> score,
          passed |-> Passed(score),
          needs_refinement |-> NeedsRefinement(score),
          feedback |-> Feedback(score)]

\* placeholder of the result before grade_evaluation has returned
NoEvaluation ==
    [score |-> Zero, passed |-> FALSE, needs_refinement |-> FALSE, feedback |-> ""]

-----------------------------------------------------------------------------
(* BestImageSelector *)

\* Python's None where a dict is expected
NoVariant == [none |-> TRUE]

\* dict.get(key, default)
Get(d, key, default) == IF key \in DOMAIN d THEN d[key] ELSE default

\* v.get('evaluation_score', 0) >= QUALITY_THRESHOLD
Qualifies(v) == RatLeq(QUALITY_THRESHOLD, Get(v, "evaluation_score", Zero))

MaxByScore_Last(seq) ==
    LET key(i) == Get(seq[i], "evaluation_score", Zero)
    IN seq[CHOOSE i \in 1..Len(seq) :
              /\ \A j \in 1..Len(seq) : RatLeq(key(j), key(i))
              /\ \A j \in (i + 1)..Len(seq) : RatLt(key(j), key(i))]

\* max(seq, key=...): the first element whose key no element exceeds
MaxByScore(seq) ==
    LET key(i) == Get(seq[i], "evaluation_score", Zero)
    IN seq[CHOOSE i \in 1..Len(seq) :
              /\ \A j \in 1..Len(seq) : RatLeq(key(j), key(i))
              /\ \A j \in 1..(i - 1) : RatLt(key(j), key(i))]

select_best_variant_NoFilter(vs) ==
    IF vs = <<>> THEN NoVariant ELSE MaxByScore(vs)

\* BestImageSelector.select_best_variant
select_best_variant(vs) ==
    IF vs = <<>> THEN NoVariant
    ELSE LET qualified_variants == SelectSeq(vs, Qualifies)
         IN IF qualified_variants = <<>> THEN NoVariant
            ELSE MaxByScore(qualified_variants)

-----------------------------------------------------------------------------
(* Texts of the pipeline runs *)

\* the prompt text of the cabin scenario
CabinPrompt ==
    <<"a", " ", "s", "n", "o", "w", "y", " ", "c", "a", "b", "i", "n", " ",
      "g", "l", "o", "w", "i", "n", "g", " ", "a", "t", " ", "d", "u", "s",
      "k">>

\* the description the vision model returns in the cabin scenario
CabinDescription ==
    <<"a", " ", "s", "n", "o", "w", "y", " ", "c", "a", "b", "i", "n", " ",
      "g", "l", "o", "w", "i", "n", "g", " ", "a", "t", " ", "d", "u", "s",
      "k", ",", " ", "w", "a", "r", "m", " ", "l", "i", "g", "h", "t", ",",
      " ", "c", "a", "l", "m">>

\* a short description that names every word of both prompts
PlainDescription ==
    <<"a", " ", "s", "n", "o", "w", "y", " ", "c", "a", "b", "i", "n", " ",
      "g", "l", "o", "w", "i", "n", "g", " ", "a", "t", " ", "d", "u", "s",
      "k", " ", "f", "o", "x", " ", "c", "a", "l", "m">>

\* the prompt text of the second prompt
FoxPrompt ==
    <<"f", "o", "x">>

\* a refined prompt text the language model may answer
RefinedText ==
    <<"s", "n", "o", "w", "y", " ", "f", "o", "x", " ", "c", "a", "b", "i",
      "n">>

\* PromptRefiner.adherence_phrase
AdherencePhrase ==
    <<"I", "m", "a", "g", "e", " ", "a", "d", "h", "e", "r", "e", "s", " ",
      "t", "o", " ", "t", "h", "e", " ", "p", "r", "o", "m", "p", "t">>

TitleLabel ==
    <<"T", "i", "t", "l", "e", ":", " ">>

SceneLabel ==
    <<"S", "c", "e", "n", "e", ":", " ">>

MoodLabel ==
    <<"M", "o", "o", "d", ":", " ">>

PromptLabel ==
    <<"P", "r", "o", "m", "p", "t", ":", " ">>

CabinTitle ==
    <<"C", "a", "b", "i", "n">>

CabinScene ==
    <<"s", "n", "o", "w", "y", " ", "c", "a", "b", "i", "n", " ", "a", "t",
      " ", "d", "u", "s", "k">>

CalmMood ==
    <<"c", "a", "l", "m">>

FoxTitle ==
    <<"F", "o", "x">>

FoxScene ==
    <<"f", "o", "x">>

\* a description of 30 words that names every word of both prompts
LongDescription ==
    PlainDescription \o [i \in 1..44 |-> IF i % 2 = 1 THEN " " ELSE "z"]

\* the prompts an input file may hold
CabinData ==
    [id |-> "s1", title |-> CabinTitle, scene |-> CabinScene, mood |-> CalmMood,
     prompt |-> CabinPrompt]
FoxData ==
    [id |-> "s2", title |-> FoxTitle, scene |-> FoxScene, mood |-> CalmMood,
     prompt |-> FoxPrompt]

InputFiles ==
    {f \in UNION {[1..n -> {CabinData, FoxData}] : n \in 0..MaxPrompts} :
        \A i, j \in 1..Len(f) : f[i].id = f[j].id => i = j}

\* what ImageVision.describe_image may return for a variant: a description or None
VisionAnswers == {CabinDescription, PlainDescription, LongDescription, None}

\* the language model raised instead of answering
LlmError == <<"error">>
\* what the language model may answer to the refinement instruction
LlmAnswers == {RefinedText, <<>>, LlmError}

-----------------------------------------------------------------------------
(* config.py: the database *)

\* the tables DatabaseGenerator.initialize_database creates
DatabaseTables ==
    {"version_info", "generated_images", "prompt_status", "prompts",
     "refined_prompts", "api_calls"}

-----------------------------------------------------------------------------
(* BatchGenerator *)

batch_size_min == 1
batch_size_max == 10

Min(a, b) == IF a <= b THEN a ELSE b
Max(a, b) == IF a >= b THEN a ELSE b

\* BatchGenerator._get_batch_size
GetBatchSize(requested_size) ==
    LET size == IF requested_size # 0 THEN requested_size ELSE BatchSize
    IN Max(batch_size_min, Min(size, batch_size_max))

Newline == <<"\n">>

\* BatchGenerator._construct_full_prompt
ConstructFullPrompt(prompt_data) ==
    TitleLabel \o prompt_data.title \o Newline
    \o SceneLabel \o prompt_data.scene \o Newline
    \o MoodLabel \o prompt_data.mood \o Newline
    \o PromptLabel \o prompt_data.prompt

\* the ascending sequence of the members of a set of integers
RECURSIVE Ascending(_)
Ascending(S) ==
    IF S = {} THEN <<>>
    ELSE LET m == CHOOSE x \in S : \A y \in S : x <= y
         IN <<m>> \o Ascending(S \ {m})

\* BatchGenerator.generate_batch: one dict per variant whose image was saved
generate_batch(prompt_id, prompt_data, iter, batch_size, saved) ==
    LET full_prompt == ConstructFullPrompt(prompt_data)
        order == Ascending(saved \cap (0..(GetBatchSize(batch_size) - 1)))
    IN [k \in 1..Len(order) |->
          [prompt_id |-> prompt_id, iteration |-> iter, variant |-> order[k],
           image_path |-> <<prompt_id, iter, order[k]>>,
           prompt_text |-> full_prompt]]

-----------------------------------------------------------------------------
(* PromptRefiner *)

\* needle in haystack
Contains(haystack, needle) ==
    \E i \in 1..(Len(haystack) - Len(needle) + 1) :
        SubSeq(haystack, i, i + Len(needle) - 1) = needle

\* PromptRefiner.refine_prompt: TRUE when the language model is asked
RefinerAsksModel(evaluation_text) ==
    ~Contains(Lower(evaluation_text), Lower(AdherencePhrase))

\* PromptRefiner.refine_prompt: TRUE when a row is saved and the answer returned
RefinerSaves(evaluation_text, answer) ==
    RefinerAsksModel(evaluation_text) /\ answer # LlmError /\ answer # <<>>

\* PromptRefiner.refine_prompt: the returned text
refine_prompt(prompt_text, evaluation_text, answer) ==
    IF RefinerSaves(evaluation_text, answer) THEN answer ELSE prompt_text

\* PromptRefiner._save_refined_prompt: the table after the insert
SaveRefinedPrompt(rows, prompt_id, evaluation_text, refined_content) ==
    LET own == {r.iteration : r \in {x \in rows : x.original_prompt_id = prompt_id}}
        next_iteration ==
            (IF own = {} THEN 0 ELSE CHOOSE m \in own : \A x \in own : x <= m) + 1
    IN rows \cup {[original_prompt_id |-> prompt_id, iteration |-> next_iteration,
                   refined_prompt |-> refined_content,
                   evaluation_text |-> evaluation_text, needs_refinement |-> TRUE]}

-----------------------------------------------------------------------------
(* PipelineOrchestrator *)

Evaluated_BeforeDescription(variant, desc, prompt_text) ==
    LET ev == grade_evaluation(<<>>, prompt_text)
    IN [prompt_id |-> variant.prompt_id, iteration |-> variant.iteration,
        variant |-> variant.variant, image_path |-> variant.image_path,
        prompt_text |-> variant.prompt_text,
        description |-> desc, evaluation_score |-> ev.score, passed |-> ev.passed,
        needs_refinement |-> ev.needs_refinement, feedback |-> ev.feedback]

\* evaluate_variants: the variant with its description and grade, as updated
Evaluated(variant, desc, prompt_text) ==
    LET ev == grade_evaluation(desc, prompt_text)
    IN [prompt_id |-> variant.prompt_id, iteration |-> variant.iteration,
        variant |-> variant.variant, image_path |-> variant.image_path,
        prompt_text |-> variant.prompt_text,
        description |-> desc, evaluation_score |-> ev.score, passed |-> ev.passed,
        needs_refinement |-> ev.needs_refinement, feedback |-> ev.feedback]

\* evaluate_variants: "if description:" keeps a variant
Described(desc) == desc # None /\ desc # <<>>

\* evaluate_variants: the kept variants, in order, given each variant's description
evaluate_variants(vs, descs, prompt_text) ==
    LET kept == Ascending({k \in 1..Len(vs) : Described(descs[k])})
    IN [j \in 1..Len(kept) |-> Evaluated(vs[kept[j]], descs[kept[j]], prompt_text)]

\* BestImageSelector.save_best_variant: INSERT OR REPLACE INTO best_images
SaveBestVariant(rows, prompt_id, iter, best) ==
    IF "best_images" \notin DatabaseTables THEN rows
    ELSE {r \in rows : ~(r.prompt_id = prompt_id /\ r.iteration = iter)}
         \cup {[prompt_id |-> prompt_id, iteration |-> iter,
                best_image_id |-> Get(best, "id", None),
                evaluation_score |-> Get(best, "evaluation_score", None)]}

\* process_variants: "iteration < max_iterations and best_variant['needs_refinement']"
RefinementWanted(iter, best) ==
    iter < max_iterations /\ best.needs_refinement

\* refine_prompt was not called in this iteration
NoRefinement == [none |-> TRUE]

\* run_pipeline: max_iterations = 1 if batch_only else PIPELINE_CONFIG["max_iterations"]
MaxIterations(batchOnly) == IF batchOnly THEN 1 ELSE max_iterations

LoopHasNext_OneMore(iter, maxIter) == iter + 1 <= maxIter + 1

\* run_pipeline: range(1, max_iterations + 1) has a value after iter
LoopHasNext(iter, maxIter) == iter + 1 <= maxIter

Satisfactory_Never(best) == FALSE

\* run_pipeline: "if not best_variant.get('needs_refinement', True): break"
Satisfactory(best) == ~Get(best, "needs_refinement", TRUE)

\* what an iteration returned: no variant, one that needs refinement, one that does not
OutcomeOf(best) ==
    IF best = NoVariant THEN "none"
    ELSE IF Get(best, "needs_refinement", TRUE) THEN "needs" ELSE "ok"

-----------------------------------------------------------------------------
(* PromptHandler.load_prompts: PromptHandler.py and prompt_handler.py *)

\* a JSON value that is not a string
NotAString == <<"number">>

\* data.get("model", "flux")
DefaultModel == <<"f", "l", "u", "x">>

\* entries of the "prompts" array that lack a required field or hold a value
\* of the wrong type
NoPromptData ==
    [id |-> "s3", title |-> FoxTitle, scene |-> FoxScene, mood |-> CalmMood]
NoIdData ==
    [title |-> FoxTitle, scene |-> FoxScene, mood |-> CalmMood,
     prompt |-> FoxPrompt]
NumberTitleData ==
    [id |-> "s4", title |-> NotAString, scene |-> FoxScene, mood |-> CalmMood,
     prompt |-> FoxPrompt]

\* the "prompts" arrays an input file may hold
RawFiles ==
    UNION {[1..n -> {CabinData, FoxData, NoPromptData, NoIdData, NumberTitleData}] :
              n \in 0..MaxPrompts}

\* PROMPT_SCHEMA: "properties" and "required" of an item
SchemaProperties(module) ==
    IF module = "PromptHandler.py"
    THEN {"id", "title", "scene", "mood", "prompt", "model"}
    ELSE {"id", "title", "scene", "mood", "prompt"}
SchemaRequired(module) ==
    IF module = "PromptHandler.py"
    THEN {"id", "title", "scene", "mood", "prompt"}
    ELSE {"title", "scene", "mood", "prompt"}

\* {"type": "string"}: the ids of the model are strings, the other values are
\* texts or NotAString
IsString(item, k) == k = "id" \/ item[k] # NotAString

\* validate(instance=data, schema=PROMPT_SCHEMA) accepts the array
SchemaAccepts(module, data) ==
    \A i \in 1..Len(data) :
        /\ SchemaRequired(module) \subseteq DOMAIN data[i]
        /\ \A k \in DOMAIN data[i] \cap SchemaProperties(module) :
              IsString(data[i], k)

\* the fields of the dataclass PromptData, and those without a default
DataclassFields(module) ==
    IF module = "PromptHandler.py"
    THEN {"id", "title", "scene", "mood", "prompt", "model"}
    ELSE {"id", "title", "scene", "mood", "prompt"}
FieldsWithoutDefault == {"id", "title", "scene", "mood", "prompt"}

\* PromptData.from_dict: cls(**data) raises TypeError for a missing or an
\* unexpected keyword
FromDictException(module, item) ==
    IF FieldsWithoutDefault \subseteq DOMAIN item
       /\ DOMAIN item \subseteq DataclassFields(module)
    THEN "none" ELSE "TypeError"

\* prompt_handler.py _validate_prompt: "except (ValidationError, KeyError)"
ValidatePromptCatches(exc) == exc \in {"ValidationError", "KeyError"}

\* PromptHandler.py: "if 'model' not in prompt_data: prompt_data['model'] = ..."
WithModel(item) ==
    IF "model" \in DOMAIN item THEN item ELSE item @@ [model |-> DefaultModel]

\* d[item.id] = item on a dict kept as the list of its values in key order
PutById(dict, item) ==
    IF \E i \in 1..Len(dict) : dict[i].id = item.id
    THEN [i \in 1..Len(dict) |-> IF dict[i].id = item.id THEN item ELSE dict[i]]
    ELSE Append(dict, item)

\* the loop over data['prompts'] from entry i on: the dict built, or the
\* exception that ended the loop
RECURSIVE LoadLoop(_, _, _, _)
LoadLoop(module, data, i, dict) ==
    IF i > Len(data) THEN [raised |-> "none", prompts |-> dict]
    ELSE LET item == IF module = "PromptHandler.py"
                     THEN WithModel(data[i]) ELSE data[i]
             exc == FromDictException(module, item)
         IN IF exc = "none"
            THEN LoadLoop(module, data, i + 1, PutById(dict, item))
            ELSE IF module = "prompt_handler.py" /\ ValidatePromptCatches(exc)
            THEN LoadLoop(module, data, i + 1, dict)
            ELSE [raised |-> exc, prompts |-> <<>>]

\* PromptHandler.load_prompts: "except Exception: return {}"
load_prompts(module, data) ==
    IF ~SchemaAccepts(module, data) THEN <<>>
    ELSE LoadLoop(module, data, 1, <<>>).prompts

-----------------------------------------------------------------------------
(* PromptHandler.save_results: PromptHandler.py keeps iteration results in
   SQLite, prompt_handler.py keeps them in files *)

\* Python's None where a dict is expected
NoneDict == [none |-> TRUE]

\* the arguments save_results is called with
StorePromptIds == {"s1", "s2"}
StoreIterations == 1..2
ImagePath == <<"a", ".", "p", "n", "g">>
ImagePaths == {None, ImagePath}
Evaluations ==
    {NoneDict, [evaluation_text |-> CabinDescription], [feedback |-> FeedbackPoor]}
SaveArguments ==
    [prompt_id : StorePromptIds, iteration : StoreIterations,
     image_path : ImagePaths, prompt : {CabinPrompt}, evaluation : Evaluations]

\* "str(image_path) if image_path else None"
PathText(image_path) == IF image_path # None THEN image_path ELSE None

\* "<x> if evaluation else <y>": None is falsy, the dicts above are not
Truthy(d) == d # NoneDict

DecimalDigits == <<"0", "1", "2", "3", "4", "5", "6", "7", "8", "9">>

\* str(n) for a natural number n
RECURSIVE IntStr(_)
IntStr(n) ==
    IF n < 10 THEN <<DecimalDigits[n + 1]>>
    ELSE IntStr(n \div 10) \o <<DecimalDigits[(n % 10) + 1]>>

\* the database as DatabaseGenerator and load_prompts leave it: no table
\* "iterations", one prompt_status row per prompt with the column defaults
EmptyDatabase ==
    [iterations |-> {},
     prompt_status |-> [p \in StorePromptIds |->
                          [current_iteration |-> 0, status |-> "pending",
                           last_updated |-> 0]]]

\* PromptHandler.py save_results: what the two statements raise, if anything
SqliteSaveException(a) ==
    IF Truthy(a.evaluation) /\ "evaluation_text" \notin DOMAIN a.evaluation
    THEN "KeyError"
    ELSE IF "iterations" \notin DatabaseTables \/ "prompt_status" \notin DatabaseTables
    THEN "OperationalError"
    ELSE "none"

\* PromptHandler.py save_results: the database after the call; an exception
\* leaves the "with" block without a commit and is logged
SqliteSave(db, a, now) ==
    IF SqliteSaveException(a) # "none" THEN db
    ELSE [iterations |->
              {r \in db.iterations :
                   ~(r.prompt_id = a.prompt_id /\ r.iteration = a.iteration)}
              \cup {[prompt_id |-> a.prompt_id, iteration |-> a.iteration,
                     image_path |-> PathText(a.image_path),
                     evaluation_text |->
                         IF Truthy(a.evaluation)
                         THEN a.evaluation.evaluation_text ELSE None,
                     status |-> IF Truthy(a.evaluation)
                                THEN "completed" ELSE "generated"]},
          prompt_status |->
              [p \in DOMAIN db.prompt_status |->
                  IF p = a.prompt_id
                  THEN [current_iteration |-> a.iteration,
                        status |-> IF Truthy(a.evaluation)
                                   THEN "completed" ELSE "in_progress",
                        last_updated |-> now]
                  ELSE db.prompt_status[p]]]

\* prompt_handler.py save_results: the "results" dict; prompts_cache is empty,
\* as it is after construction
FileResults(a, now) ==
    [timestamp |-> now, iteration |-> a.iteration, prompt |-> a.prompt,
     image_path |-> PathText(a.image_path), evaluation |-> a.evaluation,
     prompt_data |-> None]

\* prompt_handler.py save_results: iteration_<n>_results.json is overwritten
WriteResultsFile(files, a, results) ==
    LET name == <<a.prompt_id, IntStr(a.iteration)>>
    IN [f \in DOMAIN files \cup {name} |->
          IF f = name THEN results ELSE files[f]]

\* prompt_handler.py _update_summary: summary.json of the prompt after the call
UpdateSummary(summaries, a, results, now) ==
    LET summary ==
            IF a.prompt_id \in DOMAIN summaries THEN summaries[a.prompt_id]
            ELSE [prompt_id |-> a.prompt_id, iterations |-> <<>>,
                  last_updated |-> 0, total_iterations |-> 0]
        entry ==
            [timestamp |-> results.timestamp, image_path |-> results.image_path,
             has_evaluation |-> Truthy(results.evaluation),
             status |-> IF Truthy(results.evaluation)
                        THEN "completed" ELSE "generated"]
        key == IntStr(a.iteration)
        entries ==
            [k \in DOMAIN summary.iterations \cup {key} |->
                IF k = key THEN entry ELSE summary.iterations[k]]
        updated ==
            [prompt_id |-> summary.prompt_id, iterations |-> entries,
             last_updated |-> now,
             total_iterations |-> Cardinality(DOMAIN entries)]
    IN [p \in DOMAIN summaries \cup {a.prompt_id} |->
          IF p = a.prompt_id THEN updated ELSE summaries[p]]

-----------------------------------------------------------------------------
(* APIClient: FalClient and GeminiClient, and the collaborators the
   orchestrator calls directly (ImageVision, PromptRefiner) *)

\* FalClient.concurrent_limit = asyncio.Semaphore(5)
fal_concurrent_limit == 5
\* GeminiClient.concurrent_limit = asyncio.Semaphore(3)
gemini_concurrent_limit == 3
\* @backoff.on_exception(backoff.expo, Exception, max_tries=3)
max_tries == 3

\* how one attempt against the image service ends
ServiceOutcomes ==
    {"completed", "empty_payload", "timeout", "api_error", "auth_error",
     "request_error"}

\* the outcomes that leave the try block of generate_image as an exception
RaisesException(service_outcome) ==
    service_outcome \in {"timeout", "api_error", "auth_error", "request_error"}

\* transient failures (timeout, rate limit, 5xx) and permanent ones
FailureKind(service_outcome) ==
    IF service_outcome \in {"timeout", "api_error"} THEN "transient"
    ELSE "permanent"

GivesUp_OneMore(tries) == tries >= max_tries + 1

\* backoff.on_exception: the exception is raised to the caller once max_tries
\* attempts were made
GivesUp(tries) == tries >= max_tries

\* backoff.on_exception(..., Exception, ...): the exceptions that are retried
Retried(service_outcome) == RaisesException(service_outcome)

PermitsAfterExit_LeakOnException(held, service_outcome) ==
    IF RaisesException(service_outcome) THEN held ELSE held + 1

\* "async with self.concurrent_limit": __aexit__ releases the semaphore however
\* the body ends
PermitsAfterExit(held, service_outcome) == held + 1

\* the methods behind each kind of client
ClientMethods(c) ==
    IF c = "FalClient" THEN {"generate_image"}
    ELSE IF c = "GeminiClient" THEN {"evaluate_image", "refine_prompt"}
    ELSE IF c = "ImageVision" THEN {"describe_image"}
    ELSE IF c = "PromptRefiner" THEN {"refine_prompt"}
    ELSE {}

\* the value asyncio.Semaphore is built with; 0 stands for "no semaphore"
ConcurrentLimit(c) ==
    IF c = "FalClient" THEN fal_concurrent_limit
    ELSE IF c = "GeminiClient" THEN gemini_concurrent_limit
    ELSE 0

\* TRUE when the method body is inside "async with self.concurrent_limit"
Guarded(c) == c \in {"FalClient", "GeminiClient"}

\* where a call can stand: about to acquire the semaphore for attempt n (cause:
\* a fresh call, or a retry after a transient or permanent failure), or inside
\* the method body at attempt n
Positions ==
    ({"acquire"} \X (1..(max_tries + 1)) \X {"call", "transient", "permanent"})
    \cup ({"inside"} \X (1..(max_tries + 1))
          \X {"generate_image", "evaluate_image", "refine_prompt",
              "describe_image"})

NoCalls == [p \in Positions |-> 0]

\* one more, one fewer call at a position
Arrive(bag, p) == [bag EXCEPT ![p] = @ + 1]
Leave(bag, p) == [bag EXCEPT ![p] = @ - 1]

RECURSIVE CountIn(_, _)
CountIn(bag, S) ==
    IF S = {} THEN 0
    ELSE LET p == CHOOSE x \in S : TRUE
         IN bag[p] + CountIn(bag, S \ {p})

\* the calls in progress
Pending(bag) == CountIn(bag, Positions)
\* the calls inside a method body
InFlight(bag) == CountIn(bag, {p \in Positions : p[1] = "inside"})

\* most status updates delivered to one attempt
MaxUpdates == 3

\* future = asyncio.Future()
PendingFuture == [state |-> "pending"]

\* the url of a generated image
ImageUrl == <<"u">>

\* the status updates fal_client may deliver: Queued, InProgress (with logs, or
\* with a log entry that has no 'message'), Completed (with images, with an
\* empty list of images, without the attribute), Failed, and an unknown type
StatusUpdates ==
    {[type |-> "Queued"],
     [type |-> "InProgress", logs |-> "message"],
     [type |-> "InProgress", logs |-> "no message"],
     [type |-> "Completed", images |-> <<ImageUrl>>],
     [type |-> "Completed", images |-> <<>>],
     [type |-> "Completed"],
     [type |-> "Failed", error |-> "failed"],
     [type |-> "Unknown"]}

\* FalClient._handle_status_update: the exception it raises, if any
HandleStatusUpdateRaises(update) ==
    IF update.type = "InProgress" /\ update.logs = "no message" THEN "KeyError"
    ELSE IF update.type = "Failed" THEN "APIError"
    ELSE "none"

MayResolve_Always(fut) == TRUE

\* "if not future.done():"
MayResolve(fut) == fut.state = "pending"

\* future.set_result / future.set_exception: a future that is done raises
\* InvalidStateError and keeps its outcome
SetFuture(fut, resolved) == IF fut.state = "pending" THEN resolved ELSE fut

\* handle_update: what it sets the future to, or "none" when it sets nothing
Resolution(fut, update) ==
    LET exc == HandleStatusUpdateRaises(update)
    IN IF exc # "none"
       THEN IF MayResolve(fut) THEN [state |-> "exception", exception |-> exc]
            ELSE [state |-> "none"]
       ELSE IF update.type = "Completed"
       THEN IF ~MayResolve(fut) THEN [state |-> "none"]
            ELSE IF "images" \in DOMAIN update
            THEN [state |-> "result",
                  url |-> IF update.images # <<>> THEN update.images[1] ELSE None]
            ELSE [state |-> "exception", exception |-> "KeyError"]
       ELSE IF update.type = "Failed"
       THEN IF MayResolve(fut)
            THEN [state |-> "exception", exception |-> "APIError"]
            ELSE [state |-> "none"]
       ELSE [state |-> "none"]

\* handle_update: the future after the update
handle_update(fut, update) ==
    LET resolved == Resolution(fut, update)
    IN IF resolved.state = "none" THEN fut ELSE SetFuture(fut, resolved)

-----------------------------------------------------------------------------
(* Inputs of the grader: generated texts *)

\* the i-th vocabulary word, one letter long
Word(i) == <<LowerLetters[i]>>
\* a word no prompt uses
Filler == <<"z">>

Upper(text) ==
    [i \in 1..Len(text) |->
        IF \E k \in 1..26 : LowerLetters[k] = text[i]
        THEN UpperLetters[CHOOSE k \in 1..26 : LowerLetters[k] = text[i]]
        ELSE text[i]]

\* sep.join(words[lo..hi])
RECURSIVE JoinRange(_, _, _, _)
JoinRange(words, sep, lo, hi) ==
    IF lo > hi THEN <<>>
    ELSE IF lo = hi THEN words[lo]
    ELSE LET mid == (lo + hi) \div 2
         IN JoinRange(words, sep, lo, mid) \o sep \o JoinRange(words, sep, mid + 1, hi)

Join(words, sep) == JoinRange(words, sep, 1, Len(words))

Styles == {"plain", "upper", "spaced", "comma"}

\* a text of the given words written in one of the styles
Styled(words, style) ==
    CASE style = "plain" -> Join(words, <<" ">>)
      [] style = "upper" -> Upper(Join(words, <<" ">>))
      [] style = "spaced" -> <<" ">> \o Join(words, <<" ", "\t">>) \o <<"\n">>
      [] style = "comma" -> Join(words, <<",", " ">>)

\* the prompt of p distinct words
PromptText(p, style) == Styled([i \in 1..p |-> Word(i)], style)

\* a description holding c of the prompt's words and f filler words
DescriptionText(c, f, style) ==
    Styled([i \in 1..(c + f) |-> IF i <= c THEN Word(i) ELSE Filler], style)

GraderInputs ==
    {<<DescriptionText(c, f, ds), PromptText(p, ps)>> :
        <<p, c, f, ps, ds>> \in
            {x \in (0..MaxPromptWords) \X (0..MaxPromptWords) \X (0..MaxFillWords)
                    \X {"plain", "upper", "spaced"} \X {"plain", "upper", "comma"} :
                x[2] <= x[1]}}
    \cup {<<None, PromptText(1, "plain")>>, <<DescriptionText(1, 0, "plain"), None>>,
          <<None, None>>}

-----------------------------------------------------------------------------
(* The grader called on its own *)

\* the grader is not called on its own
GraderIdle ==
    /\ description = <<>> /\ original_prompt = <<>>
    /\ evaluation = NoEvaluation
    /\ raised = "none" /\ escaped = "none" /\ graded = FALSE

\* the selector is not called on its own
SelectorIdle == sel_variants = <<>> /\ sel_result = NoVariant /\ sel_done = FALSE

\* no attempt of generate_image is under way
AttemptIdle == future = PendingFuture /\ set_calls = 0 /\ update_log = <<>>

\* no client is called
ClientIdle ==
    /\ client = "none" /\ permits = 0 /\ client_calls = NoCalls /\ surfaced = {}
    /\ AttemptIdle

\* load_prompts is not called
LoaderIdle == input_data = <<>> /\ loaded = <<>> /\ load_done = FALSE

\* save_results is not called
StoreIdle ==
    /\ handler_module = "none" /\ database = EmptyDatabase /\ result_files = <<>>
    /\ summary_files = <<>> /\ clock = 0 /\ save_calls = <<>>
    /\ LoaderIdle

\* run_pipeline is not called
PipelineIdle ==
    /\ batch_only = FALSE /\ prompts = <<>> /\ pc = "idle" /\ pidx = 0
    /\ iteration = 0 /\ variants = <<>> /\ evaluated_variants = <<>>
    /\ best_variant = NoVariant /\ best_images = {} /\ refined_prompts = {}
    /\ started = {} /\ refine_calls = {} /\ outcome = <<>>
    /\ running = TRUE /\ eval_failed = {} /\ last_refine = NoRefinement

GradeInit ==
    /\ \E in \in GraderInputs : description = in[1] /\ original_prompt = in[2]
    /\ evaluation = NoEvaluation
    /\ raised = "none"
    /\ escaped = "none"
    /\ graded = FALSE
    /\ SelectorIdle
    /\ PipelineIdle
    /\ StoreIdle
    /\ ClientIdle

\* await grader.grade_evaluation(description, original_prompt)
GradeCall ==
    /\ ~graded
    /\ graded' = TRUE
    /\ raised' = GradeException(description, original_prompt)
    /\ escaped' = IF raised' # "none" /\ ~CaughtByExcept(raised') THEN raised' ELSE "none"
    /\ evaluation' = IF escaped' # "none" THEN NoEvaluation
                     ELSE grade_evaluation(description, original_prompt)
    /\ UNCHANGED <<description, original_prompt>>
    /\ UNCHANGED <<selectorVars, pipelineVars, storeVars, clientVars>>

GradeNext == GradeCall

SpecGrade == GradeInit /\ [][GradeNext]_vars

-----------------------------------------------------------------------------
(* Properties of the grader *)

\* both arguments are texts
TextInputs == description # None /\ original_prompt # None

\* C4: for all non-empty prompt texts and all non-empty descriptions the
\* returned score lies in the closed interval [0.0, 1.0].
C4_ScoreInUnitInterval ==
    (graded /\ TextInputs /\ description # <<>> /\ original_prompt # <<>>)
        => /\ escaped = "none"
           /\ RatLeq(Zero, evaluation.score)
           /\ RatLeq(evaluation.score, One)

\* a description of more than 50 words holding every prompt word: the
\* unclamped sum reaches its maximum and the score is 1.0
C4_Witness ==
    /\ graded /\ TextInputs /\ raised = "none"
    /\ Len(Split(description)) > 50
    /\ evaluation.score = One

\* C5: grade_evaluation never raises past its boundary; on an internal error
\* the returned record is score 0.0, passed false, needs_refinement true with
\* a feedback that describes the error.
C5_NeverRaisesPastBoundary ==
    graded =>
        /\ escaped = "none"
        /\ DOMAIN evaluation = {"score", "passed", "needs_refinement", "feedback"}
        /\ raised # "none" =>
              evaluation = [score |-> Zero, passed |-> FALSE,
                            needs_refinement |-> TRUE,
                            feedback |-> ExceptionText(raised)]

\* an internal error happened (division by zero on a prompt without words)
\* and the error record came back
C5_Witness ==
    /\ graded /\ raised = "ZeroDivisionError" /\ escaped = "none"
    /\ evaluation.score = Zero /\ evaluation.needs_refinement

\* C6: a prompt without words makes the term-overlap step fail with an
\* explicit InvalidInputError instead of a division by zero.
C6_EmptyPromptIsInvalidInput ==
    (graded /\ TextInputs /\ Elements(original_prompt) = {})
        => raised = "InvalidInputError"

\* C7: passed iff score >= quality_threshold, needs_refinement iff
\* score < refinement_threshold, and the feedback tier is chosen by the same
\* inclusive lower bounds.
C7_ThresholdsInclusive ==
    graded =>
        /\ evaluation.passed <=> RatLeq(Rat(7, 10), evaluation.score)
        /\ evaluation.needs_refinement <=> RatLt(evaluation.score, Rat(85, 100))
        /\ raised = "none" =>
              /\ evaluation.feedback = FeedbackFull
                    <=> RatLeq(Rat(85, 100), evaluation.score)
              /\ evaluation.feedback = FeedbackBasic
                    <=> (RatLeq(Rat(7, 10), evaluation.score)
                         /\ RatLt(evaluation.score, Rat(85, 100)))
              /\ evaluation.feedback = FeedbackPoor
                    <=> RatLt(evaluation.score, Rat(7, 10))

\* a score exactly on the quality threshold (4 of 7 prompt words, 50 words):
\* it passes and is in the middle tier
C7_Witness ==
    /\ graded /\ raised = "none"
    /\ evaluation.score = Rat(7, 10)
    /\ evaluation.passed /\ evaluation.needs_refinement
    /\ evaluation.feedback = FeedbackBasic

\* a score exactly on the refinement threshold needs no refinement
C7_WitnessRefinement ==
    /\ graded /\ raised = "none"
    /\ evaluation.score = Rat(85, 100)
    /\ ~evaluation.needs_refinement
    /\ evaluation.feedback = FeedbackFull

\* C8 as stated: every prompt word occurs in the description and the
\* description has at least 50 words, hence score 1.0, passed, no refinement.
C8_FullOverlapScoresOne_Original ==
    (graded /\ TextInputs
        /\ Elements(original_prompt) \subseteq Elements(description)
        /\ Len(Split(description)) >= 50)
        => /\ evaluation.score = One
           /\ evaluation.passed /\ ~evaluation.needs_refinement

\* C8 (amended): the same for a prompt that has at least one word.
C8_FullOverlapScoresOne ==
    (graded /\ TextInputs
        /\ Elements(original_prompt) # {}
        /\ Elements(original_prompt) \subseteq Elements(description)
        /\ Len(Split(description)) >= 50)
        => /\ evaluation.score = One
           /\ evaluation.passed /\ ~evaluation.needs_refinement

\* a prompt of several words, all found in a description of exactly 50 words
C8_Witness ==
    /\ graded /\ TextInputs
    /\ Cardinality(Elements(original_prompt)) >= 2
    /\ Elements(original_prompt) \subseteq Elements(description)
    /\ Len(Split(description)) = 50
    /\ evaluation.score = One

-----------------------------------------------------------------------------
(* The selector called on its own *)

\* the scores a variant handed to the selector may carry
ScoreChoices ==
    {Rat(1, 10), Rat(3, 10), Rat(1, 2), Rat(65, 100), Rat(7, 10), Rat(9, 10), One}

\* variant dicts with identity i, with or without an evaluation_score
VariantChoices(i) ==
    {[id |-> i, evaluation_score |-> sc] : sc \in ScoreChoices} \cup {[id |-> i]}

SelectorInputs ==
    UNION {{vs \in [1..n -> UNION {VariantChoices(i) : i \in 1..n}] :
               \A i \in 1..n : vs[i].id = i} : n \in 0..MaxVariants}

SelectInit ==
    /\ sel_variants \in SelectorInputs
    /\ sel_result = NoVariant
    /\ sel_done = FALSE
    /\ GraderIdle
    /\ PipelineIdle
    /\ StoreIdle
    /\ ClientIdle

\* await selector.select_best_variant(variants)
SelectCall ==
    /\ ~sel_done
    /\ sel_done' = TRUE
    /\ sel_result' = select_best_variant(sel_variants)
    /\ UNCHANGED sel_variants
    /\ UNCHANGED <<graderVars, pipelineVars, storeVars, clientVars>>

SelectNext == SelectCall

SpecSelect == SelectInit /\ [][SelectNext]_vars

-----------------------------------------------------------------------------
(* Properties of the selector *)

ScoreOf(v) == Get(v, "evaluation_score", Zero)

\* the listed scores of the argument, 0 where a variant has none
SelScores == [i \in 1..Len(sel_variants) |-> ScoreOf(sel_variants[i])]

\* C3: for a non-empty list the selector returns a variant that reaches the
\* quality threshold and has the greatest score among those that do, and it
\* returns no selection exactly when no variant reaches the threshold.
C3_SelectsBestQualified ==
    (sel_done /\ sel_variants # <<>>) =>
        LET qualified == {i \in 1..Len(sel_variants) : RatLeq(Rat(7, 10), SelScores[i])}
        IN /\ (sel_result = NoVariant) <=> (qualified = {})
           /\ sel_result # NoVariant =>
                 /\ \E i \in qualified : sel_variants[i] = sel_result
                 /\ \A i \in qualified : RatLeq(SelScores[i], ScoreOf(sel_result))
           /\ SelScores = <<Rat(1, 10), Rat(3, 10)>> => sel_result = NoVariant

\* the scores [0.5, 0.9, 0.65]: the variant scoring 0.9 is returned
C3_Witness ==
    /\ sel_done
    /\ SelScores = <<Rat(1, 2), Rat(9, 10), Rat(65, 100)>>
    /\ sel_result = sel_variants[2]


-----------------------------------------------------------------------------
(* PipelineOrchestrator.run_pipeline *)

Init ==
    /\ batch_only \in BOOLEAN
    /\ prompts \in InputFiles
    /\ pc = "load"
    /\ pidx = 0
    /\ iteration = 0
    /\ variants = <<>>
    /\ evaluated_variants = <<>>
    /\ best_variant = NoVariant
    /\ best_images = {}
    /\ refined_prompts = {}
    /\ started = {}
    /\ refine_calls = {}
    /\ outcome = [i \in 1..Len(prompts) |-> <<>>]
    /\ running = TRUE
    /\ eval_failed = {}
    /\ last_refine = NoRefinement
    /\ GraderIdle
    /\ SelectorIdle
    /\ StoreIdle
    /\ ClientIdle

\* prompts = await load_prompts(); "if not prompts: return"
LoadPrompts ==
    /\ pc = "load"
    /\ IF prompts = <<>>
       THEN pc' = "done" /\ pidx' = pidx
       ELSE pc' = "prompt_loop" /\ pidx' = 1
    /\ UNCHANGED <<eval_failed, last_refine>>
    /\ UNCHANGED <<batch_only, prompts, iteration, variants, evaluated_variants,
                   best_variant, best_images, refined_prompts, started,
                   refine_calls, outcome>>
    /\ UNCHANGED <<running, graderVars, selectorVars, storeVars, clientVars>>

\* "for prompt_id, prompt_data in prompts.items()": the loop is over, or
\* "if not self.running: break", or the next prompt starts at iteration 1
NextPrompt ==
    /\ pc = "prompt_loop"
    /\ IF pidx > Len(prompts) \/ ~running
       THEN pc' = "done" /\ iteration' = iteration
       ELSE pc' = "generate" /\ iteration' = 1
    /\ UNCHANGED <<eval_failed, last_refine>>
    /\ UNCHANGED <<batch_only, prompts, pidx, variants, evaluated_variants,
                   best_variant, best_images, refined_prompts, started,
                   refine_calls, outcome>>
    /\ UNCHANGED <<running, graderVars, selectorVars, storeVars, clientVars>>

\* process_variants, step 1: generate_batch_variants; no variant returns None
GenerateVariants ==
    /\ pc = "generate"
    /\ started' = started \cup {<<pidx, iteration>>}
    /\ \E saved \in SUBSET (0..(BatchSize - 1)) :
          variants' = generate_batch(prompts[pidx].id, prompts[pidx], iteration,
                                     BatchSize, saved)
    /\ evaluated_variants' = <<>>
    /\ best_variant' = NoVariant
    /\ pc' = IF variants' = <<>> THEN "returned" ELSE "evaluate"
    /\ UNCHANGED <<eval_failed, last_refine>>
    /\ UNCHANGED <<batch_only, prompts, pidx, iteration, best_images,
                   refined_prompts, refine_calls, outcome>>
    /\ UNCHANGED <<running, graderVars, selectorVars, storeVars, clientVars>>

\* process_variants, step 2: evaluate_variants; no evaluated variant returns None
EvaluateVariants ==
    /\ pc = "evaluate"
    /\ \E descs \in [1..Len(variants) -> VisionAnswers] :
          /\ evaluated_variants' =
                 evaluate_variants(variants, descs, prompts[pidx].prompt)
          /\ eval_failed' = {k \in 1..Len(variants) : ~Described(descs[k])}
    /\ pc' = IF evaluated_variants' = <<>> THEN "returned" ELSE "select"
    /\ UNCHANGED last_refine
    /\ UNCHANGED <<batch_only, prompts, pidx, iteration, variants, best_variant,
                   best_images, refined_prompts, started, refine_calls, outcome>>
    /\ UNCHANGED <<running, graderVars, selectorVars, storeVars, clientVars>>

\* process_variants, step 2 when Image.open raises for the variant at position
\* k, some of the variants before it having got no description: "except
\* Exception" returns None
EvaluateRaises ==
    /\ pc = "evaluate"
    /\ \E k \in 1..Len(variants) : \E dropped \in SUBSET (1..(k - 1)) :
          eval_failed' = dropped \cup {k}
    /\ pc' = "returned"
    /\ UNCHANGED last_refine
    /\ UNCHANGED <<batch_only, prompts, pidx, iteration, variants,
                   evaluated_variants, best_variant, best_images, refined_prompts,
                   started, refine_calls, outcome>>
    /\ UNCHANGED <<running, graderVars, selectorVars, storeVars, clientVars>>

\* process_variants, step 3: select_best_variant and save_best_variant, then the
\* test that decides on step 4
SelectBest ==
    /\ pc = "select"
    /\ best_variant' = select_best_variant(evaluated_variants)
    /\ best_images' =
          IF best_variant' # NoVariant
          THEN SaveBestVariant(best_images, prompts[pidx].id, iteration,
                               best_variant')
          ELSE best_images
    /\ pc' = IF best_variant' # NoVariant
                /\ RefinementWanted(iteration, best_variant')
             THEN "refine" ELSE "returned"
    /\ UNCHANGED <<eval_failed, last_refine>>
    /\ UNCHANGED <<batch_only, prompts, pidx, iteration, variants,
                   evaluated_variants, refined_prompts, started, refine_calls,
                   outcome>>
    /\ UNCHANGED <<running, graderVars, selectorVars, storeVars, clientVars>>

\* process_variants, step 4: refine_prompt; "if refined_prompt:" replaces
\* prompt_data['prompt']
RefinePrompt ==
    /\ pc = "refine"
    /\ refine_calls' = refine_calls \cup {<<pidx, iteration>>}
    /\ \E answer \in LlmAnswers :
          LET evaluation_text == best_variant.description
              refined_prompt ==
                  refine_prompt(prompts[pidx].prompt, evaluation_text, answer)
          IN /\ refined_prompts' =
                    IF RefinerSaves(evaluation_text, answer)
                    THEN SaveRefinedPrompt(refined_prompts, prompts[pidx].id,
                                           evaluation_text, answer)
                    ELSE refined_prompts
             /\ prompts' = IF refined_prompt # <<>>
                           THEN [prompts EXCEPT ![pidx].prompt = refined_prompt]
                           ELSE prompts
             /\ last_refine' =
                    [original_prompt |-> prompts[pidx].prompt,
                     evaluation_text |-> evaluation_text,
                     feedback |-> best_variant.feedback,
                     answer |-> answer, returned |-> refined_prompt]
    /\ pc' = "returned"
    /\ UNCHANGED eval_failed
    /\ UNCHANGED <<batch_only, pidx, iteration, variants, evaluated_variants,
                   best_variant, best_images, started, outcome>>
    /\ UNCHANGED <<running, graderVars, selectorVars, storeVars, clientVars>>

\* run_pipeline after process_variants returned: the two breaks, then the next
\* value of range(1, max_iterations + 1) or the next prompt
IterationDone ==
    /\ pc = "returned"
    /\ outcome' = [outcome EXCEPT ![pidx] = Append(@, OutcomeOf(best_variant))]
    /\ IF best_variant = NoVariant \/ Satisfactory(best_variant)
          \/ ~LoopHasNext(iteration, MaxIterations(batch_only))
       THEN pc' = "prompt_loop" /\ pidx' = pidx + 1 /\ iteration' = iteration
       ELSE pc' = "generate" /\ pidx' = pidx /\ iteration' = iteration + 1
    /\ eval_failed' = {}
    /\ last_refine' = NoRefinement
    /\ UNCHANGED <<batch_only, prompts, variants, evaluated_variants,
                   best_variant, best_images, refined_prompts, started,
                   refine_calls>>
    /\ UNCHANGED <<running, graderVars, selectorVars, storeVars, clientVars>>

\* self.running is set to False from outside the loop, as a signal handler does
Stop ==
    /\ pc \notin {"idle", "done"}
    /\ running
    /\ running' = FALSE
    /\ UNCHANGED <<batch_only, prompts, pc, pidx, iteration, variants,
                   evaluated_variants, best_variant, best_images, refined_prompts,
                   started, refine_calls, outcome, eval_failed, last_refine>>
    /\ UNCHANGED <<graderVars, selectorVars, storeVars, clientVars>>

Next ==
    \/ Stop
    \/ LoadPrompts
    \/ NextPrompt
    \/ GenerateVariants
    \/ EvaluateVariants
    \/ EvaluateRaises
    \/ SelectBest
    \/ RefinePrompt
    \/ IterationDone

Spec == Init /\ [][Next]_vars

-----------------------------------------------------------------------------
(* Properties of run_pipeline *)

\* prompt p is behind the loop position: its iteration loop has ended
Finished(p) == pc = "done" \/ pidx > p

\* the iterations for which process_variants was called for prompt p
StartedFor(p) == {c[2] : c \in {x \in started : x[1] = p}}

\* every finished iteration of prompt p returned a variant that needs refinement
AlwaysNeedsRefinement(p) ==
    \A k \in 1..Len(outcome[p]) : outcome[p][k] = "needs"

\* C1: with batch_only = False and max_iterations = 3, process_variants is
\* never called for an iteration beyond 3, and a prompt whose every iteration
\* returned a best variant with needs_refinement = true has, once its loop has
\* ended, run exactly the iterations 1, 2 and 3.
C1_ExactlyThreeIterations ==
    ~batch_only =>
        \A p \in 1..Len(prompts) :
            /\ StartedFor(p) \subseteq {1, 2, 3}
            /\ (Finished(p) /\ outcome[p] # <<>> /\ AlwaysNeedsRefinement(p)) =>
                   /\ StartedFor(p) = {1, 2, 3}
                   /\ Len(outcome[p]) = 3

\* a prompt went through three iterations that all asked for refinement
C1_Witness ==
    /\ ~batch_only
    /\ pc = "done"
    /\ \E p \in 1..Len(prompts) : outcome[p] = <<"needs", "needs", "needs">>

\* C2: when the best variant of iteration 1 of a prompt has
\* needs_refinement = false, no process_variants call is made for a later
\* iteration of that prompt and refine_prompt is never called for it.
C2_StopsAfterSatisfactoryFirst ==
    \A p \in 1..Len(prompts) :
        (Len(outcome[p]) >= 1 /\ outcome[p][1] = "ok") =>
            /\ StartedFor(p) = {1}
            /\ \A c \in refine_calls : c[1] # p

\* a run ended in which some prompt was satisfactory at iteration 1
C2_Witness ==
    /\ pc = "done"
    /\ \E p \in 1..Len(prompts) : outcome[p] = <<"ok">>

\* process_variants has returned from iteration 1 of the cabin prompt, and the
\* vision model described every kept variant with the cabin description
CabinRun ==
    /\ pc = "returned"
    /\ iteration = 1
    /\ prompts[pidx].prompt = CabinPrompt
    /\ evaluated_variants # <<>>
    /\ \A k \in 1..Len(evaluated_variants) :
           evaluated_variants[k].description = CabinDescription

\* C9 as stated: in the cabin scenario the variant is graded passed = true and
\* needs_refinement = false and is selected as best.
C9_CabinPassesAndIsSelected ==
    CabinRun =>
        /\ best_variant # NoVariant
        /\ best_variant.description = CabinDescription
        /\ best_variant.passed
        /\ ~best_variant.needs_refinement

\* C9, amended: in the cabin scenario every variant scores 239/375 (about
\* 0.637: five of the six prompt words are found, "dusk," is not "dusk", and the
\* description has nine words), so passed = false and needs_refinement = true,
\* no variant is selected, and the prompt's loop ends after iteration 1
\* without a best variant.
C9_CabinFailsAndLoopEnds ==
    /\ [](CabinRun =>
            /\ \A k \in 1..Len(evaluated_variants) :
                   /\ evaluated_variants[k].evaluation_score = Rat(239, 375)
                   /\ ~evaluated_variants[k].passed
                   /\ evaluated_variants[k].needs_refinement
            /\ best_variant = NoVariant)
    /\ [][(CabinRun /\ pc' # pc) =>
            /\ pc' = "prompt_loop"
            /\ pidx' = pidx + 1
            /\ outcome'[pidx] = <<"none">>
            /\ {c \in started' : c[1] = pidx} = {<<pidx, 1>>}]_vars

\* the cabin scenario happened
C9_Witness == CabinRun

-----------------------------------------------------------------------------
(* PromptHandler.save_results called on its own *)

StoreInit ==
    /\ handler_module \in {"PromptHandler.py", "prompt_handler.py"}
    /\ database = EmptyDatabase
    /\ result_files = <<>>
    /\ summary_files = <<>>
    /\ clock = 0
    /\ save_calls = <<>>
    /\ LoaderIdle
    /\ GraderIdle
    /\ SelectorIdle
    /\ PipelineIdle
    /\ ClientIdle

\* PromptHandler.py: await save_results(prompt_id, iteration, image_path, prompt,
\* evaluation)
SaveResultsSqlite ==
    /\ handler_module = "PromptHandler.py"
    /\ Len(save_calls) < MaxSaves
    /\ \E a \in SaveArguments :
          /\ database' = SqliteSave(database, a, clock + 1)
          /\ clock' = IF SqliteSaveException(a) = "none" THEN clock + 1 ELSE clock
          /\ save_calls' = Append(save_calls, a)
    /\ UNCHANGED <<handler_module, result_files, summary_files>>
    /\ UNCHANGED <<input_data, loaded, load_done>>
    /\ UNCHANGED <<graderVars, selectorVars, pipelineVars, clientVars>>

\* prompt_handler.py: await save_results(prompt_id, iteration, image_path,
\* prompt, evaluation), _update_summary included
SaveResultsFiles ==
    /\ handler_module = "prompt_handler.py"
    /\ Len(save_calls) < MaxSaves
    /\ \E a \in SaveArguments :
          LET results == FileResults(a, clock + 1)
          IN /\ result_files' = WriteResultsFile(result_files, a, results)
             /\ summary_files' =
                    UpdateSummary(summary_files, a, results, clock + 2)
             /\ save_calls' = Append(save_calls, a)
    /\ clock' = clock + 2
    /\ UNCHANGED <<handler_module, database>>
    /\ UNCHANGED <<input_data, loaded, load_done>>
    /\ UNCHANGED <<graderVars, selectorVars, pipelineVars, clientVars>>

StoreNext == SaveResultsSqlite \/ SaveResultsFiles

SpecStore == StoreInit /\ [][StoreNext]_vars

-----------------------------------------------------------------------------
(* Properties of save_results *)

\* the (prompt_id, iteration) keys save_results was called with
SavedKeys ==
    {<<save_calls[i].prompt_id, save_calls[i].iteration>> :
        i \in 1..Len(save_calls)}

\* the arguments of the latest save_results call for a key
LatestSave(key) ==
    LET calls == {i \in 1..Len(save_calls) :
                     <<save_calls[i].prompt_id, save_calls[i].iteration>> = key}
    IN save_calls[CHOOSE i \in calls : \A j \in calls : j <= i]

\* the records the store holds for a key
StoredRecords(key) ==
    IF handler_module = "PromptHandler.py"
    THEN {r \in database.iterations :
             r.prompt_id = key[1] /\ r.iteration = key[2]}
    ELSE {result_files[f] :
             f \in {g \in DOMAIN result_files : g = <<key[1], IntStr(key[2])>>}}

\* the record holds the data of the call
Reflects(r, a) ==
    /\ r.image_path = PathText(a.image_path)
    /\ IF handler_module = "PromptHandler.py"
       THEN r.status = (IF Truthy(a.evaluation) THEN "completed" ELSE "generated")
       ELSE r.evaluation = a.evaluation

\* after the saves so far, exactly one record per saved key, holding the data
\* of the latest save
OneRecordPerKey ==
    \A key \in SavedKeys :
        /\ Cardinality(StoredRecords(key)) = 1
        /\ \A r \in StoredRecords(key) : Reflects(r, LatestSave(key))

\* C10: after any sequence of save_results calls the store holds exactly one
\* record per saved (prompt_id, iteration), and it holds the data of the latest
\* call for that key.
C10_SaveReplaces == OneRecordPerKey

\* the same for the file-based handler of prompt_handler.py alone, with the
\* entry of summary.json
FileStoreReplaces ==
    handler_module = "prompt_handler.py" =>
        /\ OneRecordPerKey
        /\ \A key \in SavedKeys :
              /\ key[1] \in DOMAIN summary_files
              /\ IntStr(key[2]) \in DOMAIN summary_files[key[1]].iterations
              /\ summary_files[key[1]].iterations[IntStr(key[2])].image_path
                     = PathText(LatestSave(key).image_path)

\* the same key was saved twice through the file-based handler
FileStoreWitness ==
    /\ handler_module = "prompt_handler.py"
    /\ Cardinality(SavedKeys) < Len(save_calls)

-----------------------------------------------------------------------------
(* Properties of the persisted selection *)

\* the rows of best_images for the prompt and iteration being processed
SelectionRows ==
    {r \in best_images :
        r.prompt_id = prompts[pidx].id /\ r.iteration = iteration}

\* select_best_variant of the orchestrator has returned a variant
BestChosen == pc \in {"refine", "returned"} /\ best_variant # NoVariant

\* C11: once the orchestrator has chosen a best variant for (prompt_id,
\* iteration), table best_images holds exactly one selection for that key, and
\* it carries the chosen variant's score.
C11_SelectionPersisted ==
    BestChosen =>
        /\ Cardinality(SelectionRows) = 1
        /\ \A r \in SelectionRows :
               r.evaluation_score = best_variant.evaluation_score

-----------------------------------------------------------------------------
(* Properties of failure handling *)

\* process_variants returned None because generation or evaluation gave nothing
\* or raised
CollaboratorFailed ==
    pc = "returned" /\ (variants = <<>> \/ evaluated_variants = <<>>)

\* refine_prompt was called in this iteration and the language model raised or
\* answered nothing
RefinementFailed ==
    /\ pc = "returned"
    /\ last_refine # NoRefinement
    /\ last_refine.answer \in {<<>>, LlmError}

\* the prompt's loop ends here and the loop over the prompts goes on
PromptLoopStops == pc' = "prompt_loop" /\ pidx' = pidx + 1

\* a prompt that is reached while running is set starts at iteration 1
BatchContinues ==
    [][(pc = "prompt_loop" /\ pidx <= Len(prompts) /\ running /\ pc' # pc) =>
           (pc' = "generate" /\ iteration' = 1)]_vars

\* the part of C12 about generation and evaluation: such a failure ends the
\* prompt's loop at that iteration and the later prompts are still processed
GenerationFailureStopsPrompt ==
    /\ [][(CollaboratorFailed /\ pc' # pc) => PromptLoopStops]_vars
    /\ BatchContinues

\* C12: when generation, evaluation or refinement fails while processing a
\* prompt, the prompt's loop stops at that iteration, and every later prompt
\* is still processed from its iteration 1.
C12_FailureStopsPromptNotBatch ==
    /\ [][((CollaboratorFailed \/ RefinementFailed) /\ pc' # pc) =>
              PromptLoopStops]_vars
    /\ BatchContinues

\* a generation or evaluation failure happened for the first of two prompts
GenerationFailureWitness ==
    CollaboratorFailed /\ pidx = 1 /\ Len(prompts) = 2

\* the positions of the variants of this iteration whose evaluation did not fail
KeptPositions == Ascending((1..Len(variants)) \ eval_failed)

\* the evaluated variants are the variants whose evaluation did not fail, in
\* order, each graded on its own description
FailedVariantsDropped ==
    pc = "select" =>
        /\ Len(evaluated_variants) = Len(KeptPositions)
        /\ \A j \in 1..Len(evaluated_variants) :
              /\ evaluated_variants[j].variant = variants[KeptPositions[j]].variant
              /\ evaluated_variants[j].evaluation_score =
                     grade_evaluation(evaluated_variants[j].description,
                                      prompts[pidx].prompt).score

\* the evaluation step gave nothing for the generated variants
EvaluationStepFailed ==
    pc = "returned" /\ variants # <<>> /\ evaluated_variants = <<>>

\* C13: a variant whose evaluation fails is dropped while the other variants of
\* the iteration are still evaluated and graded, and the evaluation step fails
\* for the prompt only if the evaluation of every variant failed.
C13_OnlyFailsWhenAllFail ==
    /\ FailedVariantsDropped
    /\ EvaluationStepFailed => eval_failed = 1..Len(variants)

\* one variant was dropped and another one was graded
DroppedVariantWitness ==
    pc = "select" /\ eval_failed # {} /\ evaluated_variants # <<>>

\* process_variants has returned from an iteration in which variants were graded
\* and none reached the quality threshold
NoneQualifies ==
    /\ pc = "returned"
    /\ evaluated_variants # <<>>
    /\ \A k \in 1..Len(evaluated_variants) : ~Qualifies(evaluated_variants[k])

\* C14: when no graded variant of an iteration reaches the quality threshold,
\* no best variant is returned, refine_prompt is not called and no selection is
\* stored for that (prompt, iteration); the prompt's loop ends there, and a
\* prompt whose last iteration returned no variant has no later iteration.
C14_NoQualifiedVariantStopsLoop ==
    /\ [](NoneQualifies =>
            /\ best_variant = NoVariant
            /\ last_refine = NoRefinement
            /\ <<pidx, iteration>> \notin refine_calls
            /\ SelectionRows = {})
    /\ [][(NoneQualifies /\ pc' # pc) => PromptLoopStops]_vars
    /\ [](\A p \in 1..Len(prompts) :
            (outcome[p] # <<>> /\ outcome[p][Len(outcome[p])] = "none") =>
                StartedFor(p) = 1..Len(outcome[p]))

\* graded variants, none of them good enough, at a second iteration
C14_Witness == NoneQualifies /\ iteration = 2

-----------------------------------------------------------------------------
(* Properties of the texts handed to the grader and the refiner *)

\* the prompt text the input file holds for a prompt id
OriginalText(prompt_id) ==
    (CHOOSE d \in {CabinData, FoxData} : d.id = prompt_id).prompt

\* C15: at every iteration the descriptions are graded against the text the
\* prompt had when it was loaded, also after a refined text has replaced the
\* working prompt text.
C15_GradedAgainstOriginal ==
    pc = "select" =>
        \A k \in 1..Len(evaluated_variants) :
            evaluated_variants[k].evaluation_score =
                grade_evaluation(evaluated_variants[k].description,
                                 OriginalText(prompts[pidx].id)).score

\* the descriptions are graded against the working prompt text
GradedAgainstWorkingText ==
    pc = "select" =>
        \A k \in 1..Len(evaluated_variants) :
            evaluated_variants[k].evaluation_score =
                grade_evaluation(evaluated_variants[k].description,
                                 prompts[pidx].prompt).score

\* variants were graded after the working prompt text had been replaced
GradedAfterRefinement ==
    pc = "select" /\ prompts[pidx].prompt # OriginalText(prompts[pidx].id)

\* refine_prompt was called in this iteration
RefinerCalled == pc = "returned" /\ last_refine # NoRefinement

\* the refiner got the best variant's description and feedback, the text it
\* returned is the working prompt text, and generation uses the working text
RefinedTextIsUsed ==
    /\ [](RefinerCalled =>
            /\ last_refine.evaluation_text = best_variant.description
            /\ last_refine.feedback = best_variant.feedback
            /\ prompts[pidx].prompt = last_refine.returned)
    /\ [][(pc = "generate" /\ pc' # pc) =>
            \A k \in 1..Len(variants') :
                variants'[k].prompt_text = ConstructFullPrompt(prompts[pidx])]_vars

\* C16: whenever refine_prompt is called for a prompt it receives the text the
\* prompt had when it was loaded, with the best variant's description and
\* feedback; the returned text replaces the working prompt text and the next
\* generation uses it.
C16_RefinerGetsOriginal ==
    /\ [](RefinerCalled =>
            last_refine.original_prompt = OriginalText(prompts[pidx].id))
    /\ RefinedTextIsUsed

\* refine_prompt was called at the second iteration of a prompt
RefinerCalledTwice == RefinerCalled /\ iteration = 2

-----------------------------------------------------------------------------
(* Properties of the running flag *)

\* with running false, the loop over the prompts starts no new prompt
NoNewPromptOnceStopped ==
    [][(pc = "prompt_loop" /\ ~running) => pc' = "done"]_vars

\* C20: the running flag is checked between prompts and between iterations:
\* with running false no new prompt is started, and no further iteration of
\* the prompt being processed is started.
C20_RunningCheckedBetweenIterations ==
    /\ NoNewPromptOnceStopped
    /\ [][(pc = "returned" /\ ~running) => pc' # "generate"]_vars

\* running was false between two prompts, with a prompt left to process
StoppedBetweenPrompts ==
    pc = "prompt_loop" /\ ~running /\ pidx <= Len(prompts)

-----------------------------------------------------------------------------
(* Concurrent calls of one client *)

ClientInit ==
    /\ client \in {"FalClient", "GeminiClient", "ImageVision", "PromptRefiner"}
    /\ permits = ConcurrentLimit(client)
    /\ client_calls = NoCalls
    /\ surfaced = {}
    /\ AttemptIdle
    /\ GraderIdle
    /\ SelectorIdle
    /\ PipelineIdle
    /\ StoreIdle

\* a caller awaits FalClient.generate_image: the first attempt is about to
\* enter "async with self.concurrent_limit"
FalCall ==
    /\ client = "FalClient"
    /\ Pending(client_calls) < MaxCallers
    /\ client_calls' = Arrive(client_calls, <<"acquire", 1, "call">>)
    /\ UNCHANGED <<client, permits, surfaced>>
    /\ UNCHANGED <<future, set_calls, update_log>>
    /\ UNCHANGED <<graderVars, selectorVars, pipelineVars, storeVars>>

\* generate_image, attempt n: the semaphore is acquired
FalEnter ==
    /\ client = "FalClient"
    /\ permits > 0
    /\ \E p \in Positions :
          /\ p[1] = "acquire"
          /\ client_calls[p] > 0
          /\ client_calls' = Arrive(Leave(client_calls, p), <<"inside", p[2], "generate_image">>)
    /\ permits' = permits - 1
    /\ UNCHANGED <<client, surfaced>>
    /\ UNCHANGED <<future, set_calls, update_log>>
    /\ UNCHANGED <<graderVars, selectorVars, pipelineVars, storeVars>>

\* generate_image, attempt n ends: the semaphore is released; a result or None
\* is returned, or the exception reaches backoff, which retries or gives up
FalAttemptEnds ==
    /\ client = "FalClient"
    /\ \E n \in 1..(max_tries + 1) : \E service_outcome \in ServiceOutcomes :
          LET here == <<"inside", n, "generate_image">>
              kind == FailureKind(service_outcome)
          IN /\ client_calls[here] > 0
             /\ IF Retried(service_outcome) /\ ~GivesUp(n)
                THEN /\ client_calls' = Arrive(Leave(client_calls, here), <<"acquire", n + 1, kind>>)
                     /\ surfaced' = surfaced
                ELSE /\ client_calls' = Leave(client_calls, here)
                     /\ surfaced' =
                            IF RaisesException(service_outcome)
                            THEN surfaced \cup {<<n, kind>>} ELSE surfaced
             /\ permits' = PermitsAfterExit(permits, service_outcome)
    /\ UNCHANGED client
    /\ UNCHANGED <<future, set_calls, update_log>>
    /\ UNCHANGED <<graderVars, selectorVars, pipelineVars, storeVars>>

\* a caller awaits GeminiClient.evaluate_image or refine_prompt
GeminiCall ==
    /\ client = "GeminiClient"
    /\ Pending(client_calls) < MaxCallers
    /\ client_calls' = Arrive(client_calls, <<"acquire", 1, "call">>)
    /\ UNCHANGED <<client, permits, surfaced>>
    /\ UNCHANGED <<future, set_calls, update_log>>
    /\ UNCHANGED <<graderVars, selectorVars, pipelineVars, storeVars>>

\* evaluate_image / refine_prompt: the semaphore is acquired
GeminiEnter ==
    /\ client = "GeminiClient"
    /\ permits > 0
    /\ client_calls[<<"acquire", 1, "call">>] > 0
    /\ \E method \in ClientMethods(client) :
          client_calls' = Arrive(Leave(client_calls, <<"acquire", 1, "call">>),
                          <<"inside", 1, method>>)
    /\ permits' = permits - 1
    /\ UNCHANGED <<client, surfaced>>
    /\ UNCHANGED <<future, set_calls, update_log>>
    /\ UNCHANGED <<graderVars, selectorVars, pipelineVars, storeVars>>

\* evaluate_image / refine_prompt returns (a result, or None after an
\* exception): the semaphore is released
GeminiReturn ==
    /\ client = "GeminiClient"
    /\ \E method \in ClientMethods(client) :
          /\ client_calls[<<"inside", 1, method>>] > 0
          /\ client_calls' = Leave(client_calls, <<"inside", 1, method>>)
    /\ permits' = permits + 1
    /\ UNCHANGED <<client, surfaced>>
    /\ UNCHANGED <<future, set_calls, update_log>>
    /\ UNCHANGED <<graderVars, selectorVars, pipelineVars, storeVars>>

\* a caller awaits ImageVision.describe_image or PromptRefiner.refine_prompt:
\* the body starts at once, there is no semaphore
CollaboratorCall ==
    /\ ~Guarded(client)
    /\ Pending(client_calls) < MaxCallers
    /\ \E method \in ClientMethods(client) :
          client_calls' = Arrive(client_calls, <<"inside", 1, method>>)
    /\ UNCHANGED <<client, permits, surfaced>>
    /\ UNCHANGED <<future, set_calls, update_log>>
    /\ UNCHANGED <<graderVars, selectorVars, pipelineVars, storeVars>>

\* describe_image / refine_prompt returns
CollaboratorReturn ==
    /\ ~Guarded(client)
    /\ \E method \in ClientMethods(client) :
          /\ client_calls[<<"inside", 1, method>>] > 0
          /\ client_calls' = Leave(client_calls, <<"inside", 1, method>>)
    /\ UNCHANGED <<client, permits, surfaced>>
    /\ UNCHANGED <<future, set_calls, update_log>>
    /\ UNCHANGED <<graderVars, selectorVars, pipelineVars, storeVars>>

ClientNext ==
    \/ FalCall
    \/ FalEnter
    \/ FalAttemptEnds
    \/ GeminiCall
    \/ GeminiEnter
    \/ GeminiReturn
    \/ CollaboratorCall
    \/ CollaboratorReturn

SpecClients == ClientInit /\ [][ClientNext]_vars

-----------------------------------------------------------------------------
(* Properties of the clients *)

\* C17: one call of FalClient.generate_image makes at most 3 attempts: no call
\* ever stands at a fourth attempt, and a call that ends on a transient
\* failure raises it after exactly the third attempt, the earlier ones having
\* been retried.
C17_AtMostThreeAttempts ==
    /\ \A p \in Positions : p[2] > 3 => client_calls[p] = 0
    /\ \A f \in surfaced :
          /\ f[1] <= 3
          /\ f[2] = "transient" => f[1] = 3

\* a call failed three times on transient failures and raised
C17_Witness == client = "FalClient" /\ <<3, "transient">> \in surfaced

\* C18: a permanent failure of the image service is not retried:
\* generate_image makes no further attempt after it and raises it after
\* exactly one attempt.
C18_PermanentNotRetried ==
    /\ \A p \in Positions :
          (p[1] = "acquire" /\ p[3] = "permanent") => client_calls[p] = 0
    /\ \A f \in surfaced : f[2] = "permanent" => f[1] = 1

\* a call is about to retry after a permanent failure
RetriesPermanentFailure ==
    \E p \in Positions :
        p[1] = "acquire" /\ p[3] = "permanent" /\ client_calls[p] > 0

\* the semaphores of FalClient and GeminiClient bound the calls inside the
\* method bodies, and every permit is either free or held by one such call
ClientLimitsHold ==
    Guarded(client) =>
        /\ InFlight(client_calls) <= ConcurrentLimit(client)
        /\ permits + InFlight(client_calls) = ConcurrentLimit(client)

\* every permit is taken and a call waits for one
LimitReached ==
    /\ Guarded(client)
    /\ permits = 0
    /\ client_calls[<<"acquire", 1, "call">>] > 0

\* C19: the calls in flight to each external collaborator never exceed its
\* concurrency limit: at most 5 for FalClient, at most 3 for GeminiClient, and
\* the vision and refinement calls the pipeline makes (ImageVision,
\* PromptRefiner) are inside a guarded section with the same limit of 3.
C19_CallsBoundedBySemaphore ==
    /\ InFlight(client_calls) <=
           (IF client = "FalClient" THEN fal_concurrent_limit
            ELSE gemini_concurrent_limit)
    /\ InFlight(client_calls) > 0 => Guarded(client)

-----------------------------------------------------------------------------
(* PromptHandler.load_prompts called on its own *)

LoadInit ==
    /\ handler_module \in {"PromptHandler.py", "prompt_handler.py"}
    /\ input_data \in RawFiles
    /\ loaded = <<>>
    /\ load_done = FALSE
    /\ database = EmptyDatabase
    /\ result_files = <<>>
    /\ summary_files = <<>>
    /\ clock = 0
    /\ save_calls = <<>>
    /\ GraderIdle
    /\ SelectorIdle
    /\ PipelineIdle
    /\ ClientIdle

\* prompts = await self.prompt_handler.load_prompts()
LoadPromptsCall ==
    /\ handler_module \in {"PromptHandler.py", "prompt_handler.py"}
    /\ ~load_done
    /\ loaded' = load_prompts(handler_module, input_data)
    /\ load_done' = TRUE
    /\ UNCHANGED <<handler_module, database, result_files, summary_files, clock,
                   save_calls, input_data>>
    /\ UNCHANGED <<graderVars, selectorVars, pipelineVars, clientVars>>

LoadNext == LoadPromptsCall

SpecLoad == LoadInit /\ [][LoadNext]_vars

-----------------------------------------------------------------------------
(* Properties of load_prompts *)

\* an entry with every required field, each a string
ValidPrompt(item) ==
    /\ FieldsWithoutDefault \subseteq DOMAIN item
    /\ \A k \in DOMAIN item : IsString(item, k)

\* the ids of the valid entries of the input file
ValidIds == {input_data[i].id : i \in {j \in 1..Len(input_data) : ValidPrompt(input_data[j])}}

\* the ids of the returned prompts
LoadedIds == {loaded[i].id : i \in 1..Len(loaded)}

\* the input file holds a valid entry and one that fails validation
MixedFile ==
    /\ \E i \in 1..Len(input_data) : ValidPrompt(input_data[i])
    /\ \E i \in 1..Len(input_data) : ~ValidPrompt(input_data[i])

\* C21: when the input file holds an entry that fails validation together with
\* valid entries, load_prompts returns every valid prompt and only those.
C21_RejectsOnlyOffending ==
    (load_done /\ MixedFile) => LoadedIds = ValidIds

\* what the code does: the prompts of a file are returned all or none, none as
\* soon as one entry fails validation
LoadAllOrNothing ==
    load_done =>
        LoadedIds = (IF \A i \in 1..Len(input_data) : ValidPrompt(input_data[i])
                     THEN ValidIds ELSE {})

\* a file with a valid and an invalid entry was loaded
MixedFileLoaded == load_done /\ MixedFile

-----------------------------------------------------------------------------
(* Properties of the order of the steps *)

\* each step of an iteration starts from the step before it, and an iteration
\* starts from the loop over the prompts or from the end of the iteration before
StepsFollow ==
    [][(pc' # pc) =>
          /\ (pc' = "evaluate") => (pc = "generate" /\ variants' # <<>>)
          /\ (pc' = "select") => (pc = "evaluate")
          /\ (pc' = "refine") => (pc = "select" /\ best_variant' # NoVariant)
          /\ (pc' = "generate") =>
                \/ pc = "prompt_loop" /\ iteration' = 1
                \/ pc = "returned" /\ iteration' = iteration + 1 /\ pidx' = pidx]_vars

\* what each step finds: evaluation finds the generated variants of this
\* iteration and nothing evaluated, selection finds every kept variant with its
\* description and the grade of that description, refinement finds the selected
\* variant, and a started iteration n + 1 finds iteration n finished
StepsFindTheirInputs ==
    /\ pc = "evaluate" =>
          /\ evaluated_variants = <<>> /\ best_variant = NoVariant
          /\ \A k \in 1..Len(variants) :
                /\ variants[k].prompt_id = prompts[pidx].id
                /\ variants[k].iteration = iteration
    /\ pc = "select" =>
          /\ best_variant = NoVariant
          /\ Len(evaluated_variants) = Len(KeptPositions)
          /\ \A k \in 1..Len(evaluated_variants) :
                /\ Described(evaluated_variants[k].description)
                /\ evaluated_variants[k].iteration = iteration
                /\ evaluated_variants[k].evaluation_score =
                       grade_evaluation(evaluated_variants[k].description,
                                        prompts[pidx].prompt).score
    /\ pc = "refine" =>
          /\ best_variant = select_best_variant(evaluated_variants)
          /\ best_variant # NoVariant
    /\ \A c \in started :
          c[2] > 1 => (<<c[1], c[2] - 1>> \in started
                       /\ Len(outcome[c[1]]) >= c[2] - 1)

\* C22: within one prompt the steps are strictly ordered: generation completes
\* before evaluation starts, a variant is graded on the description obtained for
\* it, selection follows the grading of all variants, refinement follows
\* selection, and iteration n + 1 starts only after iteration n has finished.
C22_StepsStrictlyOrdered == []StepsFindTheirInputs /\ StepsFollow

\* refinement is reached at the second iteration of a prompt
C22_Witness == pc = "refine" /\ iteration = 2 /\ Len(outcome[pidx]) = 1

-----------------------------------------------------------------------------
(* Properties of the variant indices *)

\* generate_batch has returned the variants of this iteration
BatchReturned == pc \in {"evaluate", "select", "refine", "returned"}

\* the variant indices of the returned batch
VariantIndices == {variants[k].variant : k \in 1..Len(variants)}

\* C23: the variant indices of the variants generate_batch returns for one
\* (prompt, iteration) are exactly 0..k-1 for k returned variants, also when the
\* generation of some variants of the batch failed.
C23_VariantIndicesDense ==
    BatchReturned => VariantIndices = 0..(Len(variants) - 1)

\* what the code keeps: the indices are the loop indices of the variants that
\* were saved, distinct and ascending, below the batch size
VariantIndicesAscending ==
    BatchReturned =>
        /\ VariantIndices \subseteq 0..(GetBatchSize(BatchSize) - 1)
        /\ \A j, k \in 1..Len(variants) :
              j < k => variants[j].variant < variants[k].variant

\* a batch in which the generation of some variant failed and another succeeded
PartialBatch == pc = "evaluate" /\ Len(variants) < GetBatchSize(BatchSize)

-----------------------------------------------------------------------------
(* Properties of the status rows *)

\* the prompt_status row of the prompt at position p
StatusRow(p) == database.prompt_status[prompts[p].id]

\* the loop of the prompt before the loop position has just ended with an
\* iteration in which no image was produced
NoImageProduced == pc \in {"prompt_loop", "done"} /\ pidx > 1 /\ variants = <<>>

\* C24: when generation produced no image for a prompt, the prompt's status
\* row says failed; and after the loop of a prompt has ended its status row
\* holds the iteration reached and a terminal status.
C24_StatusFollowsIterations ==
    /\ NoImageProduced => StatusRow(pidx - 1).status \in {"failed", "error"}
    /\ \A p \in 1..Len(prompts) :
          (Finished(p) /\ outcome[p] # <<>>) =>
              /\ StatusRow(p).current_iteration = Len(outcome[p])
              /\ StatusRow(p).status \in {"completed", "failed", "error"}

\* what the code does: run_pipeline leaves every status row as load_prompts
\* created it
StatusRowsUntouched ==
    \A p \in 1..Len(prompts) :
        StatusRow(p) = [current_iteration |-> 0, status |-> "pending",
                        last_updated |-> 0]

-----------------------------------------------------------------------------
(* Properties of the selector: ties *)

\* the positions of the argument that reach the quality threshold with the
\* greatest score among those that do
TopPositions ==
    LET qualified ==
            {i \in 1..Len(sel_variants) : RatLeq(QUALITY_THRESHOLD, SelScores[i])}
    IN {i \in qualified : \A j \in qualified : RatLeq(SelScores[j], SelScores[i])}

\* C25: when several variants share the greatest score among the variants that
\* reach the quality threshold, the selector returns the one that comes first
\* in the list it was given.
C25_FirstMaximalWins ==
    (sel_done /\ TopPositions # {}) =>
        sel_result =
            sel_variants[CHOOSE i \in TopPositions : \A j \in TopPositions : i <= j]

\* two variants share the greatest qualifying score and the earlier is returned
C25_Witness ==
    /\ sel_done
    /\ Cardinality(TopPositions) >= 2
    /\ \E i \in TopPositions :
          sel_result = sel_variants[i] /\ \A j \in TopPositions : i <= j

-----------------------------------------------------------------------------
(* Properties of the refined_prompts rows *)

\* refine_prompt was called in this iteration and saved a row
RefinementSaved ==
    /\ RefinerCalled
    /\ RefinerSaves(last_refine.evaluation_text, last_refine.answer)

\* the rows of refined_prompts of the prompt being processed
OwnRefinedRows ==
    {r \in refined_prompts : r.original_prompt_id = prompts[pidx].id}

\* no two rows of refined_prompts share (original_prompt_id, iteration)
OneRowPerRefinedKey ==
    \A r1, r2 \in refined_prompts :
        (r1.original_prompt_id = r2.original_prompt_id
         /\ r1.iteration = r2.iteration) => r1 = r2

\* C26: the row PromptRefiner saves when refinement runs at iteration n of a
\* prompt has iteration = n, and there is at most one row per (prompt,
\* iteration), also when an earlier refinement was skipped or failed.
C26_RowCarriesPipelineIteration ==
    /\ RefinementSaved =>
          \E r \in OwnRefinedRows :
              r.iteration = iteration /\ r.refined_prompt = last_refine.answer
    /\ OneRowPerRefinedKey

\* what the code does: the rows of a prompt are numbered 1, 2, ... in the order
\* they were saved, one row per saved refinement
RowsNumberedBySaves ==
    /\ OneRowPerRefinedKey
    /\ pidx \in 1..Len(prompts) =>
          {r.iteration : r \in OwnRefinedRows} = 1..Cardinality(OwnRefinedRows)
    /\ RefinementSaved =>
          \E r \in OwnRefinedRows :
              /\ r.iteration = Cardinality(OwnRefinedRows)
              /\ r.refined_prompt = last_refine.answer

\* a row was saved at iteration 2 after the refinement of iteration 1 saved none
SavedAfterSkippedRefinement ==
    RefinementSaved /\ iteration = 2 /\ Cardinality(OwnRefinedRows) = 1

-----------------------------------------------------------------------------
(* Properties of the two quality thresholds *)

\* the variants of this iteration have been graded
VariantsGraded == pc \in {"select", "refine", "returned"}

\* C27: the selector's qualification test and the grader's passed flag agree on
\* every graded variant, so every selected variant has passed = true and no
\* variant with passed = true is left out of the selection.
C27_SelectedVariantPassed ==
    /\ VariantsGraded =>
          \A k \in 1..Len(evaluated_variants) :
              evaluated_variants[k].passed <=> Qualifies(evaluated_variants[k])
    /\ best_variant # NoVariant => best_variant.passed
    /\ (pc \in {"refine", "returned"} /\ best_variant = NoVariant) =>
          \A k \in 1..Len(evaluated_variants) : ~evaluated_variants[k].passed

\* a variant was selected from a batch in which another variant did not pass
C27_Witness ==
    /\ pc = "returned"
    /\ best_variant # NoVariant
    /\ \E k \in 1..Len(evaluated_variants) : ~evaluated_variants[k].passed

\* C28: FalClient.generate_image leaks no permit: a permit is held only by a
\* call inside the guarded section, not by a call waiting to retry, and once
\* every call has ended, however it ended, all 5 permits are available.
C28_NoPermitLeak ==
    client = "FalClient" =>
        /\ permits + InFlight(client_calls) = fal_concurrent_limit
        /\ Pending(client_calls) = 0 => permits = fal_concurrent_limit

\* every call has ended, one of them by raising after its last attempt
C28_Witness ==
    /\ client = "FalClient"
    /\ Pending(client_calls) = 0
    /\ \E f \in surfaced : f[1] = max_tries
    /\ permits = fal_concurrent_limit

-----------------------------------------------------------------------------
(* Properties of batch-only mode *)

\* in batch-only mode every prompt whose loop has ended ran iteration 1 only
BatchOnlyOneIteration ==
    batch_only =>
        /\ \A c \in started : c[2] = 1
        /\ \A p \in 1..Len(prompts) :
              (Finished(p) /\ outcome[p] # <<>>) => StartedFor(p) = {1}

\* C29: in batch-only mode every prompt runs exactly one iteration and
\* refine_prompt is never called.
C29_BatchOnlyNeverRefines ==
    /\ BatchOnlyOneIteration
    /\ batch_only => (refine_calls = {} /\ pc # "refine")

\* refine_prompt was called in batch-only mode
RefinedInBatchOnly == batch_only /\ refine_calls # {}

-----------------------------------------------------------------------------
(* One attempt of FalClient.generate_image: the status updates *)

UpdatesInit ==
    /\ client = "FalClient"
    /\ permits = fal_concurrent_limit - 1
    /\ client_calls = Arrive(NoCalls, <<"inside", 1, "generate_image">>)
    /\ surfaced = {}
    /\ AttemptIdle
    /\ GraderIdle
    /\ SelectorIdle
    /\ PipelineIdle
    /\ StoreIdle

\* fal_client calls on_queue_update=handle_update with a status update
DeliverUpdate ==
    /\ client = "FalClient"
    /\ client_calls[<<"inside", 1, "generate_image">>] > 0
    /\ Len(update_log) < MaxUpdates
    /\ \E update \in StatusUpdates :
          /\ future' = handle_update(future, update)
          /\ set_calls' = IF Resolution(future, update).state = "none"
                          THEN set_calls ELSE set_calls + 1
          /\ update_log' = Append(update_log, update)
    /\ UNCHANGED <<client, permits, client_calls, surfaced>>
    /\ UNCHANGED <<graderVars, selectorVars, pipelineVars, storeVars>>

UpdatesNext == DeliverUpdate

SpecUpdates == UpdatesInit /\ [][UpdatesNext]_vars

-----------------------------------------------------------------------------
(* Properties of the status updates *)

\* the update is terminal: Completed or Failed, or handling it raises
Terminal(update) ==
    update.type \in {"Completed", "Failed"}
    \/ HandleStatusUpdateRaises(update) # "none"

\* C30: within one attempt the future is resolved at most once for any sequence
\* of status updates: it is pending until the first terminal update, that
\* update fixes its outcome, and no later update changes it or sets it again.
C30_FutureResolvedOnce ==
    /\ [](set_calls <= 1)
    /\ []((future.state = "pending")
            <=> (\A i \in 1..Len(update_log) : ~Terminal(update_log[i])))
    /\ [][future.state # "pending" => future' = future]_vars

\* a Completed update arrived after a Failed one had fixed the outcome
C30_Witness ==
    /\ Len(update_log) >= 2
    /\ update_log[1].type = "Failed"
    /\ update_log[2].type = "Completed"
    /\ future = [state |-> "exception", exception |-> "APIError"]

=============================================================================
